---- MODULE Spec2Model ----
(***************************************************************************)
(* Model of the two service layers of the repository:                      *)
(*   client  src/client/src/services/api.ts    (retryRequest, NutritionAPI)*)
(*   server  src/server/src/services/openai.ts (OpenAIService)             *)
(* The client and the server are separate processes, and the classes of   *)
(* the client share nothing but retryRequest.  A behaviour exercises one   *)
(* part of the program, named by the variable part; the variables of the   *)
(* other parts keep their initial values.                                  *)
(* Strings whose contents the code inspects (substring, replace) are       *)
(* sequences of one-character strings.                                     *)
(***************************************************************************)
EXTENDS Integers, Sequences, FiniteSets, TLC

VARIABLES
  part,            \* the part of the program this behaviour exercises
  now,             \* Date.now() of that process, in ms
  retries,         \* client: the retryRequest invocations, in call order
  nutritionQueue,  \* client: NutritionAPI.requestQueue, key -> index in retries
  nutritionCalls,  \* client: the NutritionAPI.analyzeMeal calls, in call order
  nutritionTimers, \* client: pending setTimeout callbacks of analyzeMeal
  openai,          \* server: TRUE when the OpenAI client is configured
  requestCache,    \* server: requestCache, the entries in insertion order
  requestQueue,    \* server: requestQueue, key -> index in performs
  performs,        \* server: the computations started, in start order
  serverCalls,     \* server: the calls of OpenAIService, in call order
  serverTimers,    \* server: pending setTimeout callbacks of analyzeMealImage
  messageCache,    \* client: ChatAPI.messageCache, the entries in insertion order
  chatCalls,       \* client: the ChatAPI.sendMessage calls, in call order
  auth             \* client: the platform and the stores that keep the token

clientVars ==
  <<retries, nutritionQueue, nutritionCalls, nutritionTimers, messageCache,
    chatCalls, auth>>
serverVars ==
  <<openai, requestCache, requestQueue, performs, serverCalls, serverTimers>>
vars == <<part, now, clientVars, serverVars>>

Min(a, b) == IF a <= b THEN a ELSE b
MaxNoLowerClamp(a, b) == b
Max(a, b) == IF a >= b THEN a ELSE b

\* s.substring(0, n)
Substring0(s, n) == SubSeq(s, 1, Min(n, Len(s)))

(***************************************************************************)
(* Bounds of the model.                                                    *)
(***************************************************************************)
MaxPlainCalls == 1       \* NutritionAPI.saveMeal calls in one behaviour
MaxAnalyzeCalls == 2     \* NutritionAPI.analyzeMeal calls in one behaviour
MaxServerCalls == 2      \* analyzeMealImage calls in one behaviour of SpecOpenAI
MaxPerformCalls == 1     \* analyzeMealImage calls in one behaviour of SpecPerform
MaxCacheCalls == 2       \* OpenAIService calls in one behaviour of SpecCache
MaxChatCalls == 2        \* ChatAPI.sendMessage calls in one behaviour
MaxEvictCalls == 3       \* calls in one behaviour that starts with a filled cache
MaxGraceCalls == 3       \* analyzeMealImage calls in one behaviour of SpecGrace
MaxTokenCalls == 2       \* AuthAPI.getStoredToken calls in one behaviour
ClockStep == 500         \* granularity of the clock while a timer is pending, ms
FineStep == 100          \* the same where retryRequest alone is exercised
RandomScale == 1000      \* Math.random() is rnd / RandomScale, rnd < RandomScale

(***************************************************************************)
(* API_CONFIG                                                              *)
(***************************************************************************)
retryAttempts == 3
retryDelay == 1000
maxRetryDelay == 5000
NutritionGraceMs == 1000 \* the setTimeout delay of analyzeMeal's clean-up

(***************************************************************************)
(* Values that travel through promises.  An axios response, the data of a  *)
(* response and an error are different objects.                            *)
(***************************************************************************)
NoValue == [kind |-> "none"]
Null == [kind |-> "null"]
AxiosResponse(d) == [kind |-> "response", data |-> d]
\* response.data
ResponseData(r) == [kind |-> "data", data |-> r.data]
\* An error thrown by requestFn.  status is error.response?.status (0 when
\* there is no response: a timeout or a network failure), name is
\* error.name, at is the attempt that threw it (the identity of the object).
AxiosError(s, n, k) == [kind |-> "error", status |-> s, name |-> n, at |-> k]

ResponseBodies == {"body1", "body2"}
\* <<status, name>> of the failures an attempt can end with
FailureKinds ==
  { <<401, "AxiosError">>, <<403, "AxiosError">>, <<422, "AxiosError">>,
    <<429, "AxiosError">>, <<500, "AxiosError">>,
    <<0, "AxiosError">>,     \* timeout of the request (ECONNABORTED)
    <<0, "AbortError">> }    \* the request was aborted

(***************************************************************************)
(* retryRequest                                                            *)
(***************************************************************************)
\* the "Don't retry on certain error types" test
NoRetryAllRetried(e) == FALSE
NoRetryServerErrors(e) ==
  e.status \in {401, 403, 422, 500} \/ e.name = "AbortError"
NoRetry(e) ==
  \/ e.status = 401
  \/ e.status = 403
  \/ e.status = 422
  \/ e.name = "AbortError"

\* Math.min(retryDelay * Math.pow(2, attempt - 1), maxRetryDelay)
BackoffDelayOffByOne(attempt) == Min(retryDelay * 2^attempt, maxRetryDelay)
BackoffDelay(attempt) == Min(retryDelay * 2^(attempt - 1), maxRetryDelay)

\* the error that leaves retryRequest: throw error
ThrownEarlier(r, e) == IF r.err = NoValue THEN e ELSE r.err
Thrown(r, e) == e

\* attempt >= API_CONFIG.retryAttempts
CeilingOneMore(attempt) == attempt > retryAttempts
Ceiling(attempt) == attempt >= retryAttempts

\* retryRequest(requestFn): requestFn() is called at once, attempt = 1.
\* sent counts the requestFn calls; err is the error of the latest failed
\* attempt; failedAt and wakeAt are set while the back-off timer is pending.
\* by names the caller of retryRequest.
NewRetry(caller) ==
  [by |-> caller, st |-> "attempt", attempt |-> 1, sent |-> 1,
   err |-> NoValue, failedAt |-> 0, wakeAt |-> 0, value |-> NoValue]

\* return await requestFn()   -- the attempt succeeded
RetryResolved(r, resp) == [r EXCEPT !.st = "resolved", !.value = resp]

\* catch (error) { ... }      -- the attempt failed with e at time t
RetryCaught(r, e, t) ==
  IF Ceiling(r.attempt) \/ NoRetry(e)
  THEN [r EXCEPT !.st = "rejected", !.err = e, !.value = Thrown(r, e)]
  ELSE [r EXCEPT !.st = "backoff", !.err = e, !.failedAt = t,
                 !.wakeAt = t + BackoffDelay(r.attempt)]

\* the back-off timer fired: return retryRequest(requestFn, attempt + 1)
RetryAgain(r) ==
  [r EXCEPT !.st = "attempt", !.attempt = r.attempt + 1, !.sent = r.sent + 1,
            !.failedAt = 0, !.wakeAt = 0]

Settled(r) == r.st \in {"resolved", "rejected"}

(***************************************************************************)
(* Maps keyed by strings: requestQueue                                     *)
(***************************************************************************)
EmptyMap == [k \in {} |-> 0]
MapHas(m, k) == k \in DOMAIN m
MapSet(m, k, v) == [x \in DOMAIN m \cup {k} |-> IF x = k THEN v ELSE m[x]]
MapDelete(m, k) == [x \in DOMAIN m \ {k} |-> m[x]]

(***************************************************************************)
(* Caches: a Map iterates in insertion order, so a cache is the sequence   *)
(* of its entries, oldest insertion first                                  *)
(***************************************************************************)
\* Map.get(key) on a cache: the index of the entry, 0 when there is none
CacheIndex(cache, key) ==
  IF \E i \in DOMAIN cache : cache[i].key = key
  THEN CHOOSE i \in DOMAIN cache : cache[i].key = key
  ELSE 0

\* Map.set: an existing key keeps its place, a new key goes last
CachePut(cache, entry) ==
  IF CacheIndex(cache, entry.key) # 0
  THEN [cache EXCEPT ![CacheIndex(cache, entry.key)] = entry]
  ELSE Append(cache, entry)

\* Date.now() - cached.timestamp < CACHE_DURATION, in getCachedResponse and
\* in ChatAPI.sendMessage
FreshInclusive(age, ttl) == age <= ttl
Fresh(age, ttl) == age < ttl

\* What a cache held for key when a call looked it up: recorded with the
\* call.  age is -1 when there was no entry.
CacheSeen(cache, key, t) ==
  LET i == CacheIndex(cache, key) IN
  IF i = 0 THEN [age |-> -1, stored |-> Null]
  ELSE [age |-> t - cache[i].timestamp, stored |-> cache[i].data]

(***************************************************************************)
(* NutritionAPI.analyzeMeal                                                *)
(***************************************************************************)
AnalyzePrefix == <<"a", "n", "a", "l", "y", "z", "e", "_">>

\* `analyze_${imageBase64.substring(0, 50)}_${updateText || ''}`
NutritionKey(imageBase64, updateText) ==
  AnalyzePrefix \o Substring0(imageBase64, 50) \o <<"_">> \o updateText

\* what a caller that awaits retry invocation r gets once r has settled:
\* the caller that started r runs `return response.data`, a caller that was
\* handed requestQueue.get(requestKey) gets what that promise settles with
NutritionOutcome(role, r) ==
  IF r.st = "rejected" THEN [st |-> "rejected", result |-> r.value]
  ELSE IF r.st = "resolved"
  THEN [st |-> "resolved",
        result |-> IF role = "starter" THEN ResponseData(r.value) ELSE r.value]
  ELSE [st |-> "pending", result |-> NoValue]

\* the continuations that run when retry invocation i settles as r
NutritionSettle(calls, i, r) ==
  [c \in DOMAIN calls |->
     IF calls[c].retry = i /\ calls[c].st = "pending"
     THEN [calls[c] EXCEPT !.st = NutritionOutcome(calls[c].role, r).st,
                           !.result = NutritionOutcome(calls[c].role, r).result]
     ELSE calls[c]]

\* finally { setTimeout(() => requestQueue.delete(requestKey), 1000) }
NutritionFinallyOnSuccessOnly(timers, calls, i, r, t) ==
  IF r.st = "resolved"
  THEN timers \cup
       { [key |-> calls[c].key, reg |-> i, at |-> t + NutritionGraceMs] :
           c \in {x \in DOMAIN calls : calls[x].retry = i /\ calls[x].role = "starter"} }
  ELSE timers
NutritionFinally(timers, calls, i, r, t) ==
  IF Settled(r)
  THEN timers \cup
       { [key |-> calls[c].key, reg |-> i, at |-> t + NutritionGraceMs] :
           c \in {x \in DOMAIN calls : calls[x].retry = i /\ calls[x].role = "starter"} }
  ELSE timers

\* this.requestQueue.has(requestKey)
QueueHasNever(queue, key) == FALSE
QueueHas(queue, key) == MapHas(queue, key)

AnalyzeMeal(imageBase64, updateText, language) ==
  LET key == NutritionKey(imageBase64, updateText) IN
  /\ IF QueueHas(nutritionQueue, key)
     THEN \* return this.requestQueue.get(requestKey)
          LET i == nutritionQueue[key]
              out == NutritionOutcome("collapsed", retries[i]) IN
          /\ nutritionCalls' = Append(nutritionCalls,
               [key |-> key, language |-> language, role |-> "collapsed",
                retry |-> i, st |-> out.st, result |-> out.result])
          /\ UNCHANGED <<retries, nutritionQueue>>
     ELSE \* retryRequest(...); this.requestQueue.set(requestKey, requestPromise)
          LET i == Len(retries) + 1 IN
          /\ retries' = Append(retries, NewRetry("analyzeMeal"))
          /\ nutritionQueue' = MapSet(nutritionQueue, key, i)
          /\ nutritionCalls' = Append(nutritionCalls,
               [key |-> key, language |-> language, role |-> "starter",
                retry |-> i, st |-> "pending", result |-> NoValue])
  /\ UNCHANGED <<part, now, nutritionTimers, messageCache, chatCalls, auth,
                 serverVars>>

(***************************************************************************)
(* ChatAPI.sendMessage                                                     *)
(***************************************************************************)
ChatCacheDuration == 120000
ChatCacheMax == 50

\* `${message}_${language}`
ChatKey(message, language) == message \o <<"_">> \o language

\* this.messageCache.set(cacheKey, ...) and the removal of the oldest key
\* when the cache has grown past 50 entries
ChatStore(cache, key, data, t) ==
  LET put == CachePut(cache, [key |-> key, data |-> data, timestamp |-> t]) IN
  IF Len(put) > ChatCacheMax THEN Tail(put) ELSE put

\* the continuation of sendMessage when retry invocation i settles as r:
\* a response whose data.success is truthy is stored
ChatCacheAfter(cache, calls, i, r, t) ==
  IF /\ \E c \in DOMAIN calls : calls[c].retry = i /\ calls[c].st = "pending"
     /\ r.st = "resolved"
     /\ r.value.data.success
  THEN ChatStore(cache,
                 calls[CHOOSE c \in DOMAIN calls :
                         calls[c].retry = i /\ calls[c].st = "pending"].key,
                 ResponseData(r.value), t)
  ELSE cache

ChatSettle(calls, i, r) ==
  [c \in DOMAIN calls |->
     IF calls[c].retry = i /\ calls[c].st = "pending" /\ Settled(r)
     THEN [calls[c] EXCEPT
             !.st = r.st,
             !.result = IF r.st = "resolved" THEN ResponseData(r.value) ELSE r.value]
     ELSE calls[c]]

SendMessage(message, language) ==
  LET key == ChatKey(message, language)
      seen == CacheSeen(messageCache, key, now)
      i == CacheIndex(messageCache, key) IN
  /\ IF i # 0 /\ Fresh(now - messageCache[i].timestamp, ChatCacheDuration)
     THEN \* return cached.response
          /\ chatCalls' = Append(chatCalls,
               [key |-> key, age |-> seen.age, stored |-> seen.stored,
                role |-> "cached", retry |-> 0, st |-> "resolved",
                result |-> messageCache[i].data])
          /\ UNCHANGED retries
     ELSE \* await retryRequest(() => api.post("/chat/message", ...))
          /\ retries' = Append(retries, NewRetry("sendMessage"))
          /\ chatCalls' = Append(chatCalls,
               [key |-> key, age |-> seen.age, stored |-> seen.stored,
                role |-> "requested", retry |-> Len(retries) + 1,
                st |-> "pending", result |-> NoValue])
  /\ UNCHANGED <<part, now, nutritionQueue, nutritionCalls, nutritionTimers,
                 messageCache, auth, serverVars>>

(***************************************************************************)
(* api.interceptors.response: the error handler                            *)
(***************************************************************************)
\* The stores that keep the bearer token.  A store is [token, broken]: token
\* is Null or the token, broken is TRUE when the store is unavailable and
\* its operations throw.
Store(token, broken) == [token |-> token, broken |-> broken]
Token == [kind |-> "token"]
Web == "web"
Native == "native"

\* AuthAPI's statics and the calls in progress: tokenCache and
\* tokenCacheTime; the position of signOut; the getStoredToken calls in call
\* order; and whether a 401 was seen since the last signIn that gave a token
TokenCacheDuration == 300000
NoSession ==
  [tokenCache |-> Null, tokenCacheTime |-> 0, signOut |-> "idle",
   calls |-> <<>>, expired |-> FALSE]

\* the try block of the 401 branch: on the web localStorage.removeItem, else
\* SecureStore.deleteItemAsync then AsyncStorage.removeItem; the first
\* deletion that throws ends the block
PurgeTokens(a) ==
  IF a.platform = Web
  THEN [a EXCEPT !.localStorage.token = IF a.localStorage.broken THEN @ ELSE Null]
  ELSE IF a.secureStore.broken
  THEN a
  ELSE [a EXCEPT
          !.secureStore.token = Null,
          !.asyncStorage.token = IF a.asyncStorage.broken THEN @ ELSE Null]

\* window.location.href = "/signin", where window.location exists
Redirect(a) == IF a.platform = Web THEN [a EXCEPT !.location = "/signin"] ELSE a

\* the error handler of the response interceptor, for a failure with status
ResponseInterceptor(a, status) ==
  IF status = 401
  THEN [Redirect(PurgeTokens(a)) EXCEPT !.api.expired = TRUE]
  ELSE a

\* no token is stored anywhere and every store works
SignedOut ==
  [platform |-> Web, location |-> "/",
   localStorage |-> Store(Null, FALSE),
   secureStore |-> Store(Null, FALSE),
   asyncStorage |-> Store(Null, FALSE),
   api |-> NoSession]

\* the states of a client that may hold a token
AuthStates ==
  { [platform |-> Web, location |-> "/",
     localStorage |-> Store(t, FALSE),
     secureStore |-> Store(Null, FALSE),
     asyncStorage |-> Store(Null, FALSE),
     api |-> NoSession] : t \in {Null, Token} }
  \cup
  { [platform |-> Native, location |-> "/",
     localStorage |-> Store(Null, FALSE),
     secureStore |-> Store(t1, b1),
     asyncStorage |-> Store(t2, b2),
     api |-> NoSession] :
       t1 \in {Null, Token}, t2 \in {Null, Token}, b1 \in BOOLEAN, b2 \in BOOLEAN }

(***************************************************************************)
(* AuthAPI                                                                 *)
(***************************************************************************)
\* AuthAPI.signIn: await retryRequest(() => api.post("/auth/signin", data))
SignIn ==
  /\ retries' = Append(retries, NewRetry("signIn"))
  /\ UNCHANGED <<part, now, nutritionQueue, nutritionCalls, nutritionTimers,
                 messageCache, chatCalls, auth, serverVars>>

\* the continuation of signIn when retry invocation r resolved with body d:
\* if (response.data.token) { tokenCache = token; tokenCacheTime = Date.now() }
SignedIn(a, r, d, t) ==
  IF r.by = "signIn" /\ d.token # Null
  THEN [a EXCEPT !.api.tokenCache = d.token, !.api.tokenCacheTime = t,
                 !.api.expired = FALSE,
                 !.api.signOut = IF @ = "done" THEN "idle" ELSE @]
  ELSE a

\* if (token) { this.tokenCache = token; this.tokenCacheTime = Date.now() }
UpdateTokenCache(a, token, t) ==
  IF token # Null
  THEN [a EXCEPT !.api.tokenCache = token, !.api.tokenCacheTime = t]
  ELSE a

\* AuthAPI.getStoredToken() up to its first await: the cache when it is set
\* and fresh; on the web localStorage.getItem, the cache update and the
\* return; otherwise the call waits for SecureStore.getItemAsync
GetStoredToken ==
  LET api == auth.api
      call(st, via, result) ==
        [st |-> st, via |-> via, after401 |-> api.expired, result |-> result] IN
  /\ auth' =
       IF api.tokenCache # Null /\ Fresh(now - api.tokenCacheTime, TokenCacheDuration)
       THEN [auth EXCEPT !.api.calls = Append(@, call("returned", "cache", api.tokenCache))]
       ELSE IF auth.platform = Web
       THEN [UpdateTokenCache(auth, auth.localStorage.token, now) EXCEPT
               !.api.calls = Append(@, call("returned", "store", auth.localStorage.token))]
       ELSE [auth EXCEPT !.api.calls = Append(@, call("reading", "store", NoValue))]
  /\ UNCHANGED <<part, now, retries, nutritionQueue, nutritionCalls,
                 nutritionTimers, messageCache, chatCalls, serverVars>>

\* the native store answers the read of call c: SecureStore.getItemAsync,
\* or AsyncStorage.getItem when SecureStore throws
GetItem(c) ==
  /\ c \in DOMAIN auth.api.calls /\ auth.api.calls[c].st = "reading"
  /\ auth' = [auth EXCEPT
       !.api.calls[c].st = "read",
       !.api.calls[c].result = IF auth.secureStore.broken
                               THEN auth.asyncStorage.token
                               ELSE auth.secureStore.token]
  /\ UNCHANGED <<part, now, retries, nutritionQueue, nutritionCalls,
                 nutritionTimers, messageCache, chatCalls, serverVars>>

\* getStoredToken call c resumes after its await: the cache update and the
\* return
GetStoredTokenResumes(c) ==
  /\ c \in DOMAIN auth.api.calls /\ auth.api.calls[c].st = "read"
  /\ auth' = [UpdateTokenCache(auth, auth.api.calls[c].result, now) EXCEPT
                !.api.calls[c].st = "returned"]
  /\ UNCHANGED <<part, now, retries, nutritionQueue, nutritionCalls,
                 nutritionTimers, messageCache, chatCalls, serverVars>>

\* AuthAPI.signOut() up to its first await: api.post("/auth/signout")
SignOut ==
  /\ auth.api.signOut = "idle"
  /\ auth' = [auth EXCEPT !.api.signOut = "requesting"]
  /\ UNCHANGED <<part, now, retries, nutritionQueue, nutritionCalls,
                 nutritionTimers, messageCache, chatCalls, serverVars>>

\* the signout request is answered with status (a failure passes the
\* response interceptor and is caught); finally: the cache is cleared, on
\* the web localStorage.removeItem, otherwise the call waits for
\* SecureStore.deleteItemAsync
SignOutFinally(status) ==
  LET a == ResponseInterceptor(auth, status) IN
  /\ auth.api.signOut = "requesting"
  /\ auth' =
       IF a.platform = Web
       THEN [a EXCEPT !.api.tokenCache = Null, !.api.tokenCacheTime = 0,
                      !.localStorage.token = IF a.localStorage.broken THEN @ ELSE Null,
                      !.api.signOut = "done"]
       ELSE [a EXCEPT !.api.tokenCache = Null, !.api.tokenCacheTime = 0,
                      !.api.signOut = "secure"]
  /\ UNCHANGED <<part, now, retries, nutritionQueue, nutritionCalls,
                 nutritionTimers, messageCache, chatCalls, serverVars>>

\* signOut resumes after an await: SecureStore.deleteItemAsync has ended (a
\* failure is caught) and AsyncStorage.removeItem is awaited; then that has
\* ended and signOut completes
SignOutDeletes ==
  /\ auth.api.signOut \in {"secure", "async"}
  /\ auth' =
       IF auth.api.signOut = "secure"
       THEN [auth EXCEPT
               !.secureStore.token = IF auth.secureStore.broken THEN @ ELSE Null,
               !.api.signOut = "async"]
       ELSE [auth EXCEPT
               !.asyncStorage.token = IF auth.asyncStorage.broken THEN @ ELSE Null,
               !.api.signOut = "done"]
  /\ UNCHANGED <<part, now, retries, nutritionQueue, nutritionCalls,
                 nutritionTimers, messageCache, chatCalls, serverVars>>

\* NutritionAPI.saveMeal: return retryRequest(() => api.post("/nutrition/save", ...))
SaveMeal ==
  /\ retries' = Append(retries, NewRetry("saveMeal"))
  /\ UNCHANGED <<part, now, nutritionQueue, nutritionCalls, nutritionTimers,
                 messageCache, chatCalls, auth, serverVars>>

\* the state after retry invocation i became r at time now, with the
\* continuations of the callers that await it
RetryStep(i, r) ==
  /\ retries' = [retries EXCEPT ![i] = r]
  /\ nutritionCalls' = NutritionSettle(nutritionCalls, i, r)
  /\ nutritionTimers' = NutritionFinally(nutritionTimers, nutritionCalls, i, r, now)
  /\ chatCalls' = ChatSettle(chatCalls, i, r)
  /\ messageCache' = ChatCacheAfter(messageCache, chatCalls, i, r, now)
  /\ UNCHANGED <<part, now, nutritionQueue, serverVars>>

\* the HTTP request of the running attempt is answered with a success
RequestSucceeds(i, d) ==
  /\ i \in DOMAIN retries
  /\ retries[i].st = "attempt"
  /\ RetryStep(i, RetryResolved(retries[i], AxiosResponse(d)))
  /\ auth' = SignedIn(auth, retries[i], d, now)

\* the running attempt fails: requestFn() rejects
RequestFails(i, kind) ==
  /\ i \in DOMAIN retries
  /\ retries[i].st = "attempt"
  /\ RetryStep(i, RetryCaught(retries[i],
                   AxiosError(kind[1], kind[2], retries[i].attempt), now))
  /\ auth' = ResponseInterceptor(auth, kind[1])

\* setTimeout(resolve, delay) fires and retryRequest calls itself
BackoffTimer(i) ==
  /\ i \in DOMAIN retries
  /\ retries[i].st = "backoff"
  /\ now >= retries[i].wakeAt
  /\ RetryStep(i, RetryAgain(retries[i]))
  /\ UNCHANGED auth

\* the clean-up callback of analyzeMeal: this.requestQueue.delete(requestKey)
NutritionCleanup(t) ==
  /\ t \in nutritionTimers
  /\ now >= t.at
  /\ nutritionQueue' = MapDelete(nutritionQueue, t.key)
  /\ nutritionTimers' = nutritionTimers \ {t}
  /\ UNCHANGED <<part, now, retries, nutritionCalls, messageCache, chatCalls,
                 auth, serverVars>>

(***************************************************************************)
(* OpenAIService: values                                                   *)
(***************************************************************************)
CACHE_DURATION == 600000
MAX_CACHE_SIZE == 100
ServerGraceMs == 1000    \* the setTimeout delay of analyzeMealImage's clean-up

\* JavaScript truthiness of a cached value: null and "" are falsy, objects
\* and non-empty strings are truthy
Truthy(v) == v # Null /\ ~(v.kind = "text" /\ v.text = "")

English == <<"e", "n", "g", "l", "i", "s", "h">>
Hebrew == <<"h", "e", "b", "r", "e", "w">>

\* What the model call ends with.  A completion carries content: text is
\* response.choices[0]?.message?.content ("" when it is missing or empty),
\* json is the object extractCleanJSON and parsePartialJSON recover from it,
\* NoJson when they throw.  An error carries error.code and whether
\* error.message includes 'timeout'.
NoJson == [kind |-> "nojson"]
Completion(text, json) == [ok |-> TRUE, text |-> text, json |-> json]
UpstreamError(code, timeoutMsg) ==
  [ok |-> FALSE, code |-> code, timeoutMsg |-> timeoutMsg]
\* no model call was made: openai is null
NoModel == [kind |-> "nomodel"]

\* Number(x) || dflt, for a raw field x.  A raw field is [t |-> "num" or
\* "str", v |-> n] for the number n or a string that reads as n,
\* [t |-> "bool", v |-> b] for a boolean (Number(true) is 1), [t |-> "null"]
\* for null (Number(null) is 0), [t |-> "nan"] for any value Number() turns
\* into NaN (other strings, objects) and [t |-> "absent"] when missing.
\* NaN and 0 are falsy and give dflt.
NumberOr(x, dflt) ==
  IF x.t \in {"num", "str"} /\ x.v # 0 THEN x.v
  ELSE IF x.t = "bool" /\ x.v THEN 1
  ELSE dflt

\* generateEnhancedFallbackAnalysis(language, updateText): rnd is the first
\* Math.random() draw; the fields kept are the ones the callers can tell
\* results apart by
GenerateFallbackWiderRange(language, updateText, rnd) ==
  [kind |-> "fallback",
   hebrew |-> (language = Hebrew),
   name |-> Substring0(updateText, 20),
   calories |-> 300 + ((rnd * 800) \div RandomScale),
   confidence |-> 65]
GenerateEnhancedFallbackAnalysis(language, updateText, rnd) ==
  [kind |-> "fallback",
   hebrew |-> (language = Hebrew),
   name |-> Substring0(updateText, 20),
   calories |-> 300 + ((rnd * 400) \div RandomScale),
   confidence |-> 65]

\* parseAnalysisResponse(content, language)
ParseAnalysisResponse(content, language, rnd) ==
  IF content.json = NoJson
  THEN GenerateEnhancedFallbackAnalysis(language, <<>>, rnd)
  ELSE [kind |-> "normalized",
        hebrew |-> (language = Hebrew),
        name |-> content.json.name,
        calories |-> NumberOr(content.json.calories, 0),
        protein |-> NumberOr(content.json.protein, 0),
        carbs |-> NumberOr(content.json.carbs, 0),
        fat |-> NumberOr(content.json.fat, 0),
        fiber |-> NumberOr(content.json.fiber, 0),
        sugar |-> NumberOr(content.json.sugar, 0),
        sodium |-> NumberOr(content.json.sodium, 0),
        confidence |-> Min(100, Max(1, NumberOr(content.json.confidence, 75)))]

ServerError(msg) == [kind |-> "error", message |-> msg]

\* _performMealAnalysis once the model call has ended with up: the promise
\* is fulfilled with a result or rejected with a new Error
PerformOutcomeNoFallback(language, updateText, up, rnd) ==
  IF up.ok /\ up.text # ""
  THEN [st |-> "fulfilled", value |-> ParseAnalysisResponse(up, language, rnd)]
  ELSE [st |-> "rejected", value |-> ServerError("failed")]
PerformOutcome(language, updateText, up, rnd) ==
  IF up.ok /\ up.text # ""
  THEN [st |-> "fulfilled", value |-> ParseAnalysisResponse(up, language, rnd)]
  ELSE IF ~up.ok /\ up.code = "rate_limit_exceeded"
  THEN [st |-> "rejected", value |-> ServerError("busy")]
  ELSE IF ~up.ok /\ up.code = "insufficient_quota"
  THEN [st |-> "rejected", value |-> ServerError("quota")]
  ELSE IF ~up.ok /\ up.timeoutMsg
  THEN [st |-> "rejected", value |-> ServerError("too long")]
  ELSE [st |-> "fulfilled",
        value |-> GenerateEnhancedFallbackAnalysis(language, updateText, rnd)]

(***************************************************************************)
(* OpenAIService: keys, cache, queue                                       *)
(***************************************************************************)
\* s.replace(/\s+/g, '_'): every run of white space becomes one underscore
ReplaceSpaces(s) ==
  LET kept == {i \in 1..Len(s) : s[i] # " " \/ i = 1 \/ s[i - 1] # " "}
      at(j) == IF Cardinality(kept) = Len(s) THEN j
               ELSE CHOOSE i \in kept : Cardinality({k \in kept : k <= i}) = j
  IN [j \in 1..Cardinality(kept) |-> IF s[at(j)] = " " THEN "_" ELSE s[at(j)]]

\* createRequestKey(prompt, type)
CreateRequestKey(prompt, type) ==
  type \o <<"_">> \o ReplaceSpaces(Substring0(prompt, 100))

\* the key of analyzeMealImage
AnalyzeRequestKey(imageBase64, language, updateText) ==
  CreateRequestKey(
    Substring0(imageBase64, 50) \o <<"_">> \o updateText \o <<"_">> \o language,
    <<"a", "n", "a", "l", "y", "z", "e">>)

\* the key of generateText
TextRequestKey(prompt) == CreateRequestKey(prompt, <<"t", "e", "x", "t">>)

\* the key of updateMealAnalysis
UpdateRequestKey(updateText, language) ==
  CreateRequestKey(
    <<"u", "p", "d", "a", "t", "e", "_">> \o updateText \o <<"_">> \o language,
    <<"u", "p", "d", "a", "t", "e">>)

\* the key of generateMealPlan; the request's numbers are digit strings
MealPlanRequestKey(request) ==
  CreateRequestKey(
    <<"m", "e", "a", "l", "p", "l", "a", "n", "_">> \o request.target_calories_daily
      \o <<"_">> \o request.meals_per_day \o <<"_">> \o request.dietary_preferences,
    <<"m", "e", "a", "l", "p", "l", "a", "n">>)

\* getCachedResponse(key)
GetCachedResponse(cache, key, t) ==
  LET i == CacheIndex(cache, key) IN
  IF i # 0 /\ Fresh(t - cache[i].timestamp, CACHE_DURATION)
  THEN cache[i].data
  ELSE Null

\* setCachedResponse(key, data)
SetCachedResponseNoEviction(cache, key, data, t) ==
  CachePut(cache, [key |-> key, data |-> data, timestamp |-> t])
SetCachedResponse(cache, key, data, t) ==
  CachePut(IF Len(cache) >= MAX_CACHE_SIZE THEN Tail(cache) ELSE cache,
           [key |-> key, data |-> data, timestamp |-> t])

\* a call of OpenAIService as recorded: op, key, what the cache held, what
\* getCachedResponse returned, how the call was served (role: "cached",
\* "collapsed" onto a queued promise, "starter" of a computation, "local"
\* when answered without the model), the computation it awaits (perform),
\* and its outcome
ServerCall(op, key, input, seen, lookup, role, perform, st, result) ==
  [op |-> op, key |-> key, input |-> input, age |-> seen.age,
   stored |-> seen.stored, lookup |-> lookup, role |-> role,
   perform |-> perform, st |-> st, result |-> result]

\* what a caller of analyzeMealImage gets from the promise of computation p
AnalyzeOutcomeErrorSwallowed(p) ==
  IF p.st = "fulfilled" THEN [st |-> p.st, result |-> p.value]
  ELSE [st |-> "pending", result |-> Null]
AnalyzeOutcome(p) ==
  IF p.st = "pending" THEN [st |-> "pending", result |-> Null]
  ELSE [st |-> p.st, result |-> p.value]

(***************************************************************************)
(* OpenAIService.analyzeMealImage                                          *)
(***************************************************************************)
\* requestQueue.has(requestKey)
ServerQueueHasNever(queue, key) == FALSE
ServerQueueHas(queue, key) == MapHas(queue, key)

AnalyzeMealImage(imageBase64, language, updateText) ==
  LET key == AnalyzeRequestKey(imageBase64, language, updateText)
      input == [image |-> imageBase64, language |-> language,
                updateText |-> updateText]
      seen == CacheSeen(requestCache, key, now)
      cached == GetCachedResponse(requestCache, key, now) IN
  /\ IF Truthy(cached)
     THEN /\ serverCalls' = Append(serverCalls,
               ServerCall("analyze", key, input, seen, cached, "cached", 0,
                          "fulfilled", cached))
          /\ UNCHANGED <<performs, requestQueue>>
     ELSE IF ServerQueueHas(requestQueue, key)
     THEN \* return requestQueue.get(requestKey)
          LET out == AnalyzeOutcome(performs[requestQueue[key]]) IN
          /\ serverCalls' = Append(serverCalls,
               ServerCall("analyze", key, input, seen, cached, "collapsed",
                          requestQueue[key], out.st, out.result))
          /\ UNCHANGED <<performs, requestQueue>>
     ELSE \* this._performMealAnalysis(...); requestQueue.set(requestKey, ...)
          LET i == Len(performs) + 1 IN
          /\ performs' = Append(performs,
               [op |-> "analyze", key |-> key, input |-> input,
                st |-> "pending", upstream |-> Null, value |-> Null])
          /\ requestQueue' = MapSet(requestQueue, key, i)
          /\ serverCalls' = Append(serverCalls,
               ServerCall("analyze", key, input, seen, cached, "starter", i,
                          "pending", Null))
  /\ UNCHANGED <<part, now, clientVars, openai, requestCache, serverTimers>>

\* The promise of _performMealAnalysis number i settles as out, and the
\* continuations of its awaiters run: the starter stores the result
\* (setCachedResponse) when there is one and schedules the clean-up
\* (finally); every awaiter gets the outcome.  up, what the model call
\* ended with, is recorded with the computation.
PerformSettles(i, out, up) ==
  LET p == performs[i] IN
  /\ performs' = [performs EXCEPT ![i].st = out.st, ![i].value = out.value,
                                  ![i].upstream = up]
  /\ requestCache' =
       IF out.st = "fulfilled"
       THEN SetCachedResponse(requestCache, p.key, out.value, now)
       ELSE requestCache
  /\ serverTimers' = serverTimers \cup
       {[key |-> p.key, reg |-> i, at |-> now + ServerGraceMs]}
  /\ serverCalls' =
       [c \in DOMAIN serverCalls |->
          IF serverCalls[c].perform = i /\ serverCalls[c].st = "pending"
          THEN [serverCalls[c] EXCEPT !.st = out.st, !.result = out.value]
          ELSE serverCalls[c]]
  /\ UNCHANGED <<part, now, clientVars, openai, requestQueue>>

\* the model call of _performMealAnalysis number i ends with up
AnalysisResponds(i, up, rnd) ==
  /\ i \in DOMAIN performs
  /\ performs[i].op = "analyze" /\ performs[i].st = "pending"
  /\ openai
  /\ PerformSettles(i, PerformOutcome(performs[i].input.language,
                                      performs[i].input.updateText, up, rnd), up)

\* if (!openai) return this.generateEnhancedFallbackAnalysis(language,
\* updateText): the promise is resolved when created, and its awaiters
\* continue once the running code has returned
AnalysisWithoutModel(i, rnd) ==
  /\ i \in DOMAIN performs
  /\ performs[i].op = "analyze" /\ performs[i].st = "pending"
  /\ ~openai
  /\ PerformSettles(i,
       [st |-> "fulfilled",
        value |-> GenerateEnhancedFallbackAnalysis(
                    performs[i].input.language, performs[i].input.updateText, rnd)],
       NoModel)

\* the clean-up callback of analyzeMealImage: requestQueue.delete(requestKey)
ServerCleanup(t) ==
  /\ t \in serverTimers
  /\ now >= t.at
  /\ requestQueue' = MapDelete(requestQueue, t.key)
  /\ serverTimers' = serverTimers \ {t}
  /\ UNCHANGED <<part, now, clientVars, openai, requestCache, performs, serverCalls>>

\* OpenAIService.clearCaches()
ClearCaches ==
  /\ requestCache # <<>> \/ requestQueue # EmptyMap
  /\ requestCache' = <<>>
  /\ requestQueue' = EmptyMap
  /\ UNCHANGED <<part, now, clientVars, openai, performs, serverCalls, serverTimers>>

(***************************************************************************)
(* OpenAIService.generateText, updateMealAnalysis, generateMealPlan        *)
(***************************************************************************)
Text(t) == [kind |-> "text", text |-> t]

\* generateFallbackMealPlan(request): rnd is the first Math.random() draw
GenerateFallbackMealPlan(request, rnd) ==
  [kind |-> "fallbackplan", calories |-> request.target_calories_daily,
   prep |-> 20 + ((rnd * 20) \div RandomScale)]

\* The part the three operations share: the cache is looked up; on a miss
\* without a model client the operation returns the value local; otherwise
\* the model is called and the call awaits it.
CachedCall(op, key, input, local) ==
  LET seen == CacheSeen(requestCache, key, now)
      cached == GetCachedResponse(requestCache, key, now) IN
  /\ IF Truthy(cached)
     THEN /\ serverCalls' = Append(serverCalls,
               ServerCall(op, key, input, seen, cached, "cached", 0,
                          "fulfilled", cached))
          /\ UNCHANGED performs
     ELSE IF ~openai
     THEN /\ serverCalls' = Append(serverCalls,
               ServerCall(op, key, input, seen, cached, "local", 0,
                          "fulfilled", local))
          /\ UNCHANGED performs
     ELSE /\ performs' = Append(performs,
               [op |-> op, key |-> key, input |-> input, st |-> "pending",
                upstream |-> Null, value |-> Null])
          /\ serverCalls' = Append(serverCalls,
               ServerCall(op, key, input, seen, cached, "starter",
                          Len(performs) + 1, "pending", Null))
  /\ UNCHANGED <<part, now, clientVars, openai, requestCache, requestQueue,
                 serverTimers>>

\* The model call of computation i has ended with up and the operation
\* returns value; store tells whether it ran setCachedResponse(requestKey, result).
CachedReturn(i, up, value, store) ==
  /\ performs' = [performs EXCEPT ![i].st = "fulfilled", ![i].value = value,
                                  ![i].upstream = up]
  /\ requestCache' =
       IF store THEN SetCachedResponse(requestCache, performs[i].key, value, now)
       ELSE requestCache
  /\ serverCalls' =
       [c \in DOMAIN serverCalls |->
          IF serverCalls[c].perform = i /\ serverCalls[c].st = "pending"
          THEN [serverCalls[c] EXCEPT !.st = "fulfilled", !.result = value]
          ELSE serverCalls[c]]
  /\ UNCHANGED <<part, now, clientVars, openai, requestQueue, serverTimers>>

GenerateText(prompt) ==
  CachedCall("text", TextRequestKey(prompt), [prompt |-> prompt],
             Text("AI text generation is not available"))

\* response.choices[0]?.message?.content || "" is stored and returned; an
\* error gives the failure text, which is not stored
TextResponds(i, up) ==
  /\ i \in DOMAIN performs
  /\ performs[i].op = "text" /\ performs[i].st = "pending"
  /\ IF up.ok
     THEN CachedReturn(i, up, Text(up.text), TRUE)
     ELSE CachedReturn(i, up, Text("Text generation failed"), FALSE)

UpdateMealAnalysis(originalAnalysis, updateText, language, rnd) ==
  CachedCall("update", UpdateRequestKey(updateText, language),
             [original |-> originalAnalysis, updateText |-> updateText,
              language |-> language],
             GenerateEnhancedFallbackAnalysis(language, updateText, rnd))

\* the result of parseAnalysisResponse is stored and returned; missing
\* content and errors give the fallback, which is not stored
UpdateResponds(i, up, rnd) ==
  /\ i \in DOMAIN performs
  /\ performs[i].op = "update" /\ performs[i].st = "pending"
  /\ IF up.ok /\ up.text # ""
     THEN CachedReturn(i, up,
            ParseAnalysisResponse(up, performs[i].input.language, rnd), TRUE)
     ELSE CachedReturn(i, up,
            GenerateEnhancedFallbackAnalysis(performs[i].input.language,
                                             performs[i].input.updateText, rnd),
            FALSE)

GenerateMealPlan(request, rnd) ==
  CachedCall("mealplan", MealPlanRequestKey(request), [request |-> request],
             GenerateFallbackMealPlan(request, rnd))

\* the result of parseMealPlanResponse is stored and returned; missing
\* content, content that does not parse and errors give the fallback plan
MealPlanResponds(i, up, rnd) ==
  /\ i \in DOMAIN performs
  /\ performs[i].op = "mealplan" /\ performs[i].st = "pending"
  /\ IF up.ok /\ up.text # "" /\ up.json # NoJson
     THEN CachedReturn(i, up, [kind |-> "mealplan", plan |-> up.json], TRUE)
     ELSE CachedReturn(i, up,
            GenerateFallbackMealPlan(performs[i].input.request, rnd), FALSE)

(***************************************************************************)
(* Time.  A timer fires when its delay has elapsed: the clock does not     *)
(* pass the deadline of a pending timer.  While a timer is pending the     *)
(* clock ticks by ClockStep or jumps to the next deadline.  Time that      *)
(* passes while no timer is pending matters only to the age of the cache   *)
(* entries: the clock then jumps to the next instant at which an entry is  *)
(* one millisecond short of its time to live, or reaches it.               *)
(***************************************************************************)
TimerDeadlines ==
  {retries[i].wakeAt : i \in {x \in DOMAIN retries : retries[x].st = "backoff"}}
  \cup {t.at : t \in nutritionTimers}
  \cup {t.at : t \in serverTimers}

Expiries ==
  UNION {{requestCache[i].timestamp + CACHE_DURATION - 1,
          requestCache[i].timestamp + CACHE_DURATION} : i \in DOMAIN requestCache}
  \cup
  UNION {{messageCache[i].timestamp + ChatCacheDuration - 1,
          messageCache[i].timestamp + ChatCacheDuration} : i \in DOMAIN messageCache}
  \cup
  {auth.api.tokenCacheTime + TokenCacheDuration : x \in {auth.api.tokenCache} \ {Null}}

SetMin(S) == CHOOSE x \in S : \A y \in S : x <= y

Advance(step) ==
  /\ TimerDeadlines # {}
  /\ \E next \in {now + step, SetMin(TimerDeadlines)} :
       /\ next > now
       /\ \A d \in TimerDeadlines : next <= d
       /\ now' = next
  /\ UNCHANGED <<part, clientVars, serverVars>>

AdvanceToExpiry ==
  /\ TimerDeadlines = {}
  /\ \E x \in Expiries : x > now
  /\ now' = SetMin({x \in Expiries : x > now})
  /\ UNCHANGED <<part, clientVars, serverVars>>

(***************************************************************************)
(* Inputs                                                                  *)
(***************************************************************************)
Chars(n, c) == [i \in 1..n |-> c]
ImgA == Chars(51, "a")                      \* an image
ImgB == Chars(50, "a") \o <<"b">>           \* another with the same first 50
Images == {ImgA, ImgB}
NoText == <<>>                              \* updateText absent or ""
UpdateTexts == {NoText, <<"x">>}
ClientLanguages == {"en"}
\* the failures drawn while analyzeMeal is exercised
FewFailureKinds == {<<500, "AxiosError">>, <<401, "AxiosError">>}

ServerLanguages == {English, Hebrew}
RandomDraws == {0, RandomScale - 1}
Num(n) == [t |-> "num", v |-> n]
Str(n) == [t |-> "str", v |-> n]
\* the objects recovered from the model's content
Absent == [t |-> "absent"]
Parsed(name, calories, confidence, nutrient) ==
  [name |-> name, calories |-> calories, confidence |-> confidence,
   protein |-> nutrient, carbs |-> nutrient, fat |-> nutrient,
   fiber |-> Absent, sugar |-> nutrient, sodium |-> nutrient]
Salad == Parsed("salad", Str(450), Num(150), Absent)
Soup == Parsed("soup", Num(200), Absent, Num(7))
\* what the model call of an analysis can end with
AnalysisUpstreams ==
  { Completion("json", Salad), Completion("json", Soup),
    Completion("", NoJson), Completion("sorry", NoJson),
    UpstreamError("rate_limit_exceeded", FALSE),
    UpstreamError("insufficient_quota", FALSE),
    UpstreamError("other", TRUE), UpstreamError("other", FALSE) }
\* the ones drawn where the interleaving of the calls is what matters
FewUpstreams ==
  { Completion("json", Salad), UpstreamError("rate_limit_exceeded", FALSE),
    UpstreamError("other", FALSE) }
\* what the model call of generateText can end with
TextUpstreams ==
  { Completion("hello", NoJson), Completion("", NoJson),
    UpstreamError("other", FALSE) }
Prompts == {<<"h", "i">>}
Originals == {"analysis1", "analysis2"}
MealPlanRequests ==
  { [target_calories_daily |-> <<"2", "0", "0", "0">>, meals_per_day |-> <<"3">>,
     dietary_preferences |-> <<"v", "e", "g", "a", "n">>] }
\* the bodies the backend answers /chat/message with
ChatBodies == { [success |-> TRUE, reply |-> "r1"], [success |-> TRUE, reply |-> "r2"],
                [success |-> FALSE, reply |-> "r3"] }
ChatMessages == {<<"h", "i">>, <<"y", "o">>}
ChatLanguages == {<<"e", "n">>}

(***************************************************************************)
(* Specifications                                                          *)
(***************************************************************************)
InitClient ==
  /\ retries = <<>>
  /\ nutritionQueue = EmptyMap
  /\ nutritionCalls = <<>>
  /\ nutritionTimers = {}
  /\ messageCache = <<>>
  /\ chatCalls = <<>>

InitServer ==
  /\ requestCache = <<>>
  /\ requestQueue = EmptyMap
  /\ performs = <<>>
  /\ serverCalls = <<>>
  /\ serverTimers = {}

InitIdle == now = 0 /\ InitClient /\ InitServer /\ auth = SignedOut

\* retryRequest under a caller that only returns its promise
InitRetry == part = "retryRequest" /\ InitIdle /\ openai = FALSE
NextRetry ==
  \/ Len(retries) < MaxPlainCalls /\ SaveMeal
  \/ \E i \in DOMAIN retries, d \in ResponseBodies : RequestSucceeds(i, d)
  \/ \E i \in DOMAIN retries, k \in FailureKinds : RequestFails(i, k)
  \/ \E i \in DOMAIN retries : BackoffTimer(i)
  \/ Advance(FineStep)
SpecRetry == InitRetry /\ [][NextRetry]_vars

\* parseAnalysisResponse alone, as a function of the content, the language
\* and the random source.  A raw field takes every kind of value; the
\* random source matters only when the content cannot be parsed.
RawValues ==
  {Num(n) : n \in {-5, 0, 1, 50, 100, 150, 450}} \cup {Str(0), Str(450)}
  \cup {[t |-> "bool", v |-> TRUE], [t |-> "bool", v |-> FALSE],
        [t |-> "null"], [t |-> "nan"], Absent}
ParseInputs ==
  { [content |-> Completion("json", Parsed("meal", cal, conf, nut)),
     language |-> lang, rnd |-> 0] :
       cal \in RawValues, conf \in RawValues,
       nut \in {Absent, Str(450), [t |-> "nan"]}, lang \in ServerLanguages }
  \cup
  { [content |-> Completion("sorry", NoJson), language |-> lang, rnd |-> rnd] :
       lang \in ServerLanguages, rnd \in 0..(RandomScale - 1) }
ParseStep(i) ==
  /\ i \in DOMAIN performs
  /\ performs[i].op = "parse" /\ performs[i].st = "pending"
  /\ performs' =
       [performs EXCEPT
          ![i].st = "fulfilled",
          ![i].value = ParseAnalysisResponse(performs[i].input.content,
                         performs[i].input.language, performs[i].input.rnd)]
  /\ UNCHANGED <<part, now, clientVars, openai, requestCache, requestQueue,
                 serverCalls, serverTimers>>
InitParse ==
  /\ part = "parseAnalysisResponse" /\ now = 0 /\ InitClient /\ auth = SignedOut
  /\ openai = TRUE /\ requestCache = <<>> /\ requestQueue = EmptyMap
  /\ serverCalls = <<>> /\ serverTimers = {}
  /\ \E in \in ParseInputs :
       performs = <<[op |-> "parse", key |-> <<>>, input |-> in, st |-> "pending",
                    upstream |-> in.content, value |-> Null]>>
NextParse == \E i \in DOMAIN performs : ParseStep(i)
SpecParse == InitParse /\ [][NextParse]_vars

\* the response interceptor under retryRequest, for a client that holds a
\* token
InitAuth ==
  /\ part = "interceptor" /\ now = 0 /\ InitClient /\ InitServer
  /\ openai = FALSE /\ auth \in AuthStates
NextAuth ==
  \/ part = "interceptor" /\ Len(retries) < MaxPlainCalls /\ SaveMeal
  \/ part = "interceptor" /\ \E i \in DOMAIN retries, d \in ResponseBodies :
       RequestSucceeds(i, d)
  \/ part = "interceptor" /\ \E i \in DOMAIN retries, k \in FewFailureKinds :
       RequestFails(i, k)
  \/ part = "interceptor" /\ \E i \in DOMAIN retries : BackoffTimer(i)
  \/ part = "interceptor" /\ Advance(ClockStep)
SpecAuth == InitAuth /\ [][NextAuth]_vars

\* AuthAPI over the token stores: signIn, getStoredToken and signOut beside
\* a backend call that may be answered with 401
TokenBodies == {[token |-> Token], [token |-> Null]}
NextSession ==
  \/ part = "interceptor" /\ Len(retries) < MaxPlainCalls /\ SignIn
  \/ part = "interceptor" /\ Len(retries) < MaxPlainCalls /\ SaveMeal
  \/ part = "interceptor" /\ \E i \in DOMAIN retries, d \in TokenBodies :
       RequestSucceeds(i, d)
  \/ part = "interceptor" /\ \E i \in DOMAIN retries, k \in FewFailureKinds :
       RequestFails(i, k)
  \/ part = "interceptor" /\ \E i \in DOMAIN retries : BackoffTimer(i)
  \/ part = "interceptor" /\ Len(auth.api.calls) < MaxTokenCalls /\ GetStoredToken
  \/ part = "interceptor" /\ \E c \in DOMAIN auth.api.calls : GetItem(c)
  \/ part = "interceptor" /\ \E c \in DOMAIN auth.api.calls : GetStoredTokenResumes(c)
  \/ part = "interceptor" /\ SignOut
  \/ part = "interceptor" /\ \E status \in {200, 500} : SignOutFinally(status)
  \/ part = "interceptor" /\ SignOutDeletes
  \/ part = "interceptor" /\ Advance(ClockStep)
  \/ part = "interceptor" /\ AdvanceToExpiry
SpecSession == InitAuth /\ [][NextSession]_vars

\* NutritionAPI.analyzeMeal over retryRequest
InitNutrition == part = "NutritionAPI" /\ InitIdle /\ openai = FALSE
NextNutrition ==
  \/ part = "NutritionAPI" /\ \E img \in Images, upd \in UpdateTexts, lang \in ClientLanguages :
       Len(nutritionCalls) < MaxAnalyzeCalls /\ AnalyzeMeal(img, upd, lang)
  \/ part = "NutritionAPI" /\ \E i \in DOMAIN retries, d \in ResponseBodies : RequestSucceeds(i, d)
  \/ part = "NutritionAPI" /\ \E i \in DOMAIN retries, k \in FewFailureKinds : RequestFails(i, k)
  \/ part = "NutritionAPI" /\ \E i \in DOMAIN retries : BackoffTimer(i)
  \/ part = "NutritionAPI" /\ \E t \in nutritionTimers : NutritionCleanup(t)
  \/ part = "NutritionAPI" /\ Advance(ClockStep)
SpecNutrition == InitNutrition /\ [][NextNutrition]_vars

\* ChatAPI.sendMessage over retryRequest
InitChat == part = "ChatAPI" /\ InitIdle /\ openai = FALSE
NextChat ==
  \/ part = "ChatAPI" /\ \E m \in ChatMessages, lang \in ChatLanguages :
       Len(chatCalls) < MaxChatCalls /\ SendMessage(m, lang)
  \/ part = "ChatAPI" /\ \E i \in DOMAIN retries, d \in ChatBodies : RequestSucceeds(i, d)
  \/ part = "ChatAPI" /\ \E i \in DOMAIN retries : RequestFails(i, <<401, "AxiosError">>)
  \/ part = "ChatAPI" /\ AdvanceToExpiry
SpecChat == InitChat /\ [][NextChat]_vars

\* OpenAIService.analyzeMealImage: the interleaving of calls, settlements,
\* clean-up timers and clearCaches
InitOpenAI == part = "OpenAIService" /\ InitIdle /\ openai \in BOOLEAN
NextOpenAI ==
  \/ part = "OpenAIService" /\ \E lang \in ServerLanguages :
       Len(serverCalls) < MaxServerCalls /\ AnalyzeMealImage(ImgA, lang, NoText)
  \/ part = "OpenAIService" /\ \E i \in DOMAIN performs, up \in FewUpstreams : AnalysisResponds(i, up, 0)
  \/ part = "OpenAIService" /\ \E i \in DOMAIN performs : AnalysisWithoutModel(i, 0)
  \/ part = "OpenAIService" /\ \E t \in serverTimers : ServerCleanup(t)
  \/ part = "OpenAIService" /\ ClearCaches
  \/ part = "OpenAIService" /\ Advance(ClockStep)
SpecOpenAI == InitOpenAI /\ [][NextOpenAI]_vars

\* OpenAIService.analyzeMealImage: every way the model call can end
InitPerform == part = "performMealAnalysis" /\ InitIdle /\ openai \in BOOLEAN
NextPerform ==
  \/ \E lang \in ServerLanguages, upd \in UpdateTexts :
       Len(serverCalls) < MaxPerformCalls /\ AnalyzeMealImage(ImgA, lang, upd)
  \/ \E i \in DOMAIN performs, up \in AnalysisUpstreams, rnd \in RandomDraws :
       AnalysisResponds(i, up, rnd)
  \/ \E i \in DOMAIN performs, rnd \in RandomDraws : AnalysisWithoutModel(i, rnd)
  \/ \E t \in serverTimers : ServerCleanup(t)
  \/ Advance(ClockStep)
SpecPerform == InitPerform /\ [][NextPerform]_vars

\* the cached operations of OpenAIService and the age of the entries
InitCache == part = "requestCache" /\ InitIdle /\ openai \in BOOLEAN
NextCache ==
  \/ part = "requestCache" /\ Len(serverCalls) < MaxCacheCalls /\ AnalyzeMealImage(ImgA, English, NoText)
  \/ part = "requestCache" /\ \E i \in DOMAIN performs : AnalysisResponds(i, Completion("json", Salad), 0)
  \/ part = "requestCache" /\ \E i \in DOMAIN performs : AnalysisWithoutModel(i, 0)
  \/ part = "requestCache" /\ \E t \in serverTimers : ServerCleanup(t)
  \/ part = "requestCache" /\ \E prompt \in Prompts :
       Len(serverCalls) < MaxCacheCalls /\ GenerateText(prompt)
  \/ part = "requestCache" /\ \E i \in DOMAIN performs, up \in TextUpstreams : TextResponds(i, up)
  \/ part = "requestCache" /\ \E o \in Originals :
       Len(serverCalls) < MaxCacheCalls /\ UpdateMealAnalysis(o, <<"x">>, English, 0)
  \/ part = "requestCache" /\ \E i \in DOMAIN performs, up \in FewUpstreams : UpdateResponds(i, up, 0)
  \/ part = "requestCache" /\ \E r \in MealPlanRequests :
       Len(serverCalls) < MaxCacheCalls /\ GenerateMealPlan(r, 0)
  \/ part = "requestCache" /\ \E i \in DOMAIN performs, up \in FewUpstreams : MealPlanResponds(i, up, 0)
  \/ part = "requestCache" /\ Advance(ClockStep)
  \/ part = "requestCache" /\ AdvanceToExpiry
SpecCache == InitCache /\ [][NextCache]_vars

\* the two places that collapse concurrent calls: server and client
InitDedup == InitOpenAI \/ InitNutrition
NextDedup == NextOpenAI \/ NextNutrition
SpecDedup == InitDedup /\ [][NextDedup]_vars

\* The two caches near their capacity.  The behaviour starts after
\* generateText (sendMessage) has been called and answered, at time 0, for n
\* prompts "01", "02", ...: the cache holds their n entries and the records
\* of those calls are dropped.  The clock stops at the instant these
\* entries expire.
Digits == <<"0", "1", "2", "3", "4", "5", "6", "7", "8", "9">>
FillerPrompt(i) == <<Digits[((i \div 10) % 10) + 1], Digits[(i % 10) + 1]>>
ServerFilled(n) ==
  [i \in 1..n |-> [key |-> TextRequestKey(FillerPrompt(i)), data |-> Text("hello"),
                   timestamp |-> 0]]
ChatFilled(n) ==
  [i \in 1..n |-> [key |-> ChatKey(FillerPrompt(i), <<"e", "n">>),
                   data |-> [success |-> TRUE, reply |-> "r1"], timestamp |-> 0]]
EvictPrompts == {FillerPrompt(1), <<"q">>, <<"r">>}
InitEvict ==
  /\ now = 0 /\ auth = SignedOut
  /\ retries = <<>> /\ nutritionQueue = EmptyMap /\ nutritionCalls = <<>>
  /\ nutritionTimers = {} /\ chatCalls = <<>>
  /\ requestQueue = EmptyMap /\ performs = <<>> /\ serverCalls = <<>>
  /\ serverTimers = {}
  /\ \/ /\ part = "requestCache" /\ openai = TRUE /\ messageCache = <<>>
        /\ requestCache \in {ServerFilled(MAX_CACHE_SIZE - 1),
                             ServerFilled(MAX_CACHE_SIZE)}
     \/ /\ part = "ChatAPI" /\ openai = FALSE /\ requestCache = <<>>
        /\ messageCache \in {ChatFilled(ChatCacheMax - 1), ChatFilled(ChatCacheMax)}
NextEvict ==
  \/ part = "requestCache" /\ \E prompt \in EvictPrompts :
       Len(serverCalls) < MaxEvictCalls /\ GenerateText(prompt)
  \/ part = "requestCache" /\ \E i \in DOMAIN performs :
       TextResponds(i, Completion("hello", NoJson))
  \/ part = "ChatAPI" /\ \E m \in EvictPrompts :
       Len(chatCalls) < MaxEvictCalls /\ SendMessage(m, <<"e", "n">>)
  \/ part = "ChatAPI" /\ \E i \in DOMAIN retries :
       RequestSucceeds(i, [success |-> TRUE, reply |-> "r1"])
  \/ part = "requestCache" /\ now < CACHE_DURATION /\ AdvanceToExpiry
  \/ part = "ChatAPI" /\ now < ChatCacheDuration /\ AdvanceToExpiry
SpecEvict == InitEvict /\ [][NextEvict]_vars

\* The two request queues with one fingerprint, under the scheduling the
\* platform guarantees: a request or a model call that is awaited is
\* answered, a timer that is due fires, and time passes.
NextLive ==
  \/ part = "OpenAIService" /\ Len(serverCalls) < MaxServerCalls
       /\ AnalyzeMealImage(ImgA, English, NoText)
  \/ part = "OpenAIService" /\ \E i \in DOMAIN performs, up \in FewUpstreams :
       AnalysisResponds(i, up, 0)
  \/ part = "OpenAIService" /\ \E i \in DOMAIN performs : AnalysisWithoutModel(i, 0)
  \/ part = "OpenAIService" /\ \E t \in serverTimers : ServerCleanup(t)
  \/ part = "OpenAIService" /\ ClearCaches
  \/ part = "NutritionAPI" /\ Len(nutritionCalls) < MaxAnalyzeCalls
       /\ AnalyzeMeal(ImgA, NoText, "en")
  \/ part = "NutritionAPI" /\ \E i \in DOMAIN retries : RequestSucceeds(i, "body1")
  \/ part = "NutritionAPI" /\ \E i \in DOMAIN retries, k \in FewFailureKinds :
       RequestFails(i, k)
  \/ part = "NutritionAPI" /\ \E i \in DOMAIN retries : BackoffTimer(i)
  \/ part = "NutritionAPI" /\ \E t \in nutritionTimers : NutritionCleanup(t)
  \/ Advance(ClockStep)
SpecLive ==
  /\ InitDedup /\ [][NextLive]_vars
  /\ WF_vars(\E i \in DOMAIN performs, up \in FewUpstreams : AnalysisResponds(i, up, 0))
  /\ WF_vars(\E i \in DOMAIN performs : AnalysisWithoutModel(i, 0))
  /\ WF_vars(\E t \in serverTimers : ServerCleanup(t))
  /\ WF_vars(\/ \E i \in DOMAIN retries : RequestSucceeds(i, "body1")
             \/ \E i \in DOMAIN retries, k \in FewFailureKinds : RequestFails(i, k))
  /\ WF_vars(\E i \in DOMAIN retries : BackoffTimer(i))
  /\ WF_vars(\E t \in nutritionTimers : NutritionCleanup(t))
  /\ WF_vars(Advance(ClockStep))

\* The two request queues and the server cache under requests in two
\* languages: an update text long enough that the prompt of the server key
\* reaches 100 characters before the language, and the client's locales
LongText == Chars(49, "x")
Locales == {"en", "he"}
NextLang ==
  \/ part = "OpenAIService" /\ Len(serverCalls) < MaxServerCalls
       /\ \E lang \in ServerLanguages, upd \in {NoText, LongText} :
            AnalyzeMealImage(ImgA, lang, upd)
  \/ part = "OpenAIService" /\ \E i \in DOMAIN performs, up \in FewUpstreams :
       AnalysisResponds(i, up, 0)
  \/ part = "OpenAIService" /\ \E i \in DOMAIN performs : AnalysisWithoutModel(i, 0)
  \/ part = "OpenAIService" /\ \E t \in serverTimers : ServerCleanup(t)
  \/ part = "NutritionAPI" /\ Len(nutritionCalls) < MaxAnalyzeCalls
       /\ \E lang \in Locales : AnalyzeMeal(ImgA, NoText, lang)
  \/ part = "NutritionAPI" /\ \E i \in DOMAIN retries : RequestSucceeds(i, "body1")
  \/ part = "NutritionAPI" /\ \E i \in DOMAIN retries, k \in FewFailureKinds :
       RequestFails(i, k)
  \/ part = "NutritionAPI" /\ \E i \in DOMAIN retries : BackoffTimer(i)
  \/ part = "NutritionAPI" /\ \E t \in nutritionTimers : NutritionCleanup(t)
  \/ Advance(ClockStep)
SpecLang == InitDedup /\ [][NextLang]_vars

\* OpenAIService.analyzeMealImage under one fingerprint, with enough calls
\* for two computations to overlap and a third call to arrive afterwards
InitGrace == part = "grace" /\ InitIdle /\ openai \in BOOLEAN
NextGrace ==
  \/ part = "grace" /\ Len(serverCalls) < MaxGraceCalls
       /\ AnalyzeMealImage(ImgA, English, NoText)
  \/ part = "grace" /\ \E i \in DOMAIN performs, up \in FewUpstreams :
       AnalysisResponds(i, up, 0)
  \/ part = "grace" /\ \E i \in DOMAIN performs : AnalysisWithoutModel(i, 0)
  \/ part = "grace" /\ \E t \in serverTimers : ServerCleanup(t)
  \/ part = "grace" /\ ClearCaches
  \/ part = "grace" /\ Advance(ClockStep)
SpecGrace == InitGrace /\ [][NextGrace]_vars

\* the two caches with a time to live: server and client
InitTtl == InitCache \/ InitChat
NextTtl == NextCache \/ NextChat
SpecTtl == InitTtl /\ [][NextTtl]_vars

(***************************************************************************)
(* Properties                                                              *)
(***************************************************************************)
\* the call a step adds to a sequence of calls
Added(calls) == calls'[Len(calls')]
AnalyzeCalls == {c \in DOMAIN serverCalls : serverCalls[c].op = "analyze"}

\* C1: a call of analyzeMealImage (server) or analyzeMeal (client) whose
\* fingerprint has a registration that is still unsettled starts no
\* underlying call and is attached to that registration (on the server,
\* unless the cache answers it first), and a call whose
\* fingerprint has neither a registration nor a cache entry starts exactly
\* one underlying call and registers it: calls with one fingerprint that
\* follow each other while the first is unsettled start one underlying call.
C1_ServerStep ==
  (Len(serverCalls') = Len(serverCalls) + 1 /\ Added(serverCalls).op = "analyze") =>
    LET k == Added(serverCalls).key IN
    /\ (MapHas(requestQueue, k) /\ performs[requestQueue[k]].st = "pending") =>
         /\ performs' = performs
         /\ \/ Added(serverCalls).role = "cached"
            \/ /\ Added(serverCalls).role = "collapsed"
               /\ Added(serverCalls).perform = requestQueue[k]
    /\ (~MapHas(requestQueue, k) /\ CacheIndex(requestCache, k) = 0) =>
         /\ Len(performs') = Len(performs) + 1
         /\ SubSeq(performs', 1, Len(performs)) = performs
         /\ MapHas(requestQueue', k) /\ requestQueue'[k] = Len(performs')
         /\ performs'[Len(performs')].st = "pending"
C1_ClientStep ==
  (Len(nutritionCalls') = Len(nutritionCalls) + 1) =>
    LET k == Added(nutritionCalls).key IN
    /\ (MapHas(nutritionQueue, k) /\ ~Settled(retries[nutritionQueue[k]])) =>
         /\ retries' = retries
         /\ Added(nutritionCalls).retry = nutritionQueue[k]
    /\ ~MapHas(nutritionQueue, k) =>
         /\ Len(retries') = Len(retries) + 1
         /\ SubSeq(retries', 1, Len(retries)) = retries
         /\ MapHas(nutritionQueue', k) /\ nutritionQueue'[k] = Len(retries')
         /\ retries'[Len(retries')].sent = 1
C1_OneUnderlyingCall == [][C1_ServerStep /\ C1_ClientStep]_vars

\* C1 witness: on the server a second call with the fingerprint of a
\* computation that is still pending has been attached to it, and one
\* computation has been started
C1_Witness ==
  /\ Len(serverCalls) = 2 /\ Len(performs) = 1
  /\ serverCalls[1].role = "starter" /\ serverCalls[2].role = "collapsed"
  /\ serverCalls[1].key = serverCalls[2].key
  /\ serverCalls[2].perform = 1 /\ performs[1].st = "pending"

\* C2: every caller collapsed onto a registration receives, on success, the
\* result value that the caller who started the underlying call receives
C2_SameResultAsStarter ==
  /\ \A c, d \in AnalyzeCalls :
       (/\ serverCalls[c].role = "starter" /\ serverCalls[d].role = "collapsed"
        /\ serverCalls[c].perform = serverCalls[d].perform
        /\ serverCalls[c].st = "fulfilled")
       => serverCalls[d].st = "fulfilled"
          /\ serverCalls[d].result = serverCalls[c].result
  /\ \A c, d \in DOMAIN nutritionCalls :
       (/\ nutritionCalls[c].role = "starter" /\ nutritionCalls[d].role = "collapsed"
        /\ nutritionCalls[c].retry = nutritionCalls[d].retry
        /\ nutritionCalls[c].st = "resolved")
       => nutritionCalls[d].st = "resolved"
          /\ nutritionCalls[d].result = nutritionCalls[c].result

\* the model call ended in one of the three ways _performMealAnalysis
\* answers by throwing
C3_Throws(up) ==
  /\ up # NoModel
  /\ ~up.ok
  /\ up.code \in {"rate_limit_exceeded", "insufficient_quota"} \/ up.timeoutMsg

\* C3 as stated: analyzeMealImage never rejects
C3_NeverRejects == \A c \in AnalyzeCalls : serverCalls[c].st # "rejected"

\* C3 as amended: a call of analyzeMealImage is rejected exactly when the
\* model call failed with code rate_limit_exceeded, with code
\* insufficient_quota or with a message that includes 'timeout'; in every
\* other case (no model client, empty content, unparsable content, any other
\* error) it resolves with a normalized or a Fallback result
C3_RejectsOnlyOnThreeErrors ==
  \A c \in AnalyzeCalls :
    (serverCalls[c].perform # 0 /\ serverCalls[c].st # "pending") =>
      LET up == performs[serverCalls[c].perform].upstream IN
      /\ serverCalls[c].st = "rejected" <=> C3_Throws(up)
      /\ serverCalls[c].st = "rejected" => serverCalls[c].result.kind = "error"
      /\ serverCalls[c].st = "fulfilled" =>
           /\ serverCalls[c].result.kind \in {"normalized", "fallback"}
           /\ (up # NoModel /\ up.ok /\ up.text # "" /\ up.json # NoJson)
                <=> serverCalls[c].result.kind = "normalized"

\* C3 witness: one call was rejected because the model call timed out and
\* nothing else was wrong with it
C3_Witness ==
  \E c \in AnalyzeCalls :
    /\ serverCalls[c].st = "rejected"
    /\ performs[serverCalls[c].perform].upstream = UpstreamError("other", TRUE)

\* C4: a cached operation that finds an entry stored less than
\* CACHE_DURATION ago returns the stored value and makes no upstream call,
\* whatever the stored value is
C4_LiveEntryIsServed ==
  \A c \in DOMAIN serverCalls :
    (serverCalls[c].age >= 0 /\ serverCalls[c].age < CACHE_DURATION) =>
      /\ serverCalls[c].role = "cached"
      /\ serverCalls[c].perform = 0
      /\ serverCalls[c].result = serverCalls[c].stored

\* C5: a look-up of an entry stored t ms ago returns the stored value when
\* t < TTL and is a miss when t >= TTL, t = TTL included: on the server
\* getCachedResponse returns null and the call is not answered from the
\* cache, on the client sendMessage sends the request
C5_TtlBoundary ==
  /\ \A c \in DOMAIN serverCalls :
       serverCalls[c].age >= 0 =>
         IF serverCalls[c].age < 600000
         THEN serverCalls[c].lookup = serverCalls[c].stored
         ELSE serverCalls[c].lookup = Null /\ serverCalls[c].role # "cached"
  /\ \A c \in DOMAIN chatCalls :
       chatCalls[c].age >= 0 =>
         IF chatCalls[c].age < 120000
         THEN chatCalls[c].role = "cached"
              /\ chatCalls[c].result = chatCalls[c].stored
         ELSE chatCalls[c].role = "requested" /\ chatCalls[c].retry # 0

\* C5 witness: a server call looked up an entry exactly CACHE_DURATION old
\* and was not answered from the cache
C5_Witness ==
  \E c \in DOMAIN serverCalls :
    /\ serverCalls[c].age = 600000
    /\ serverCalls[c].stored # Null
    /\ serverCalls[c].role \in {"starter", "local"}

\* C6: retryRequest calls requestFn at most 3 times, whatever the failures,
\* and never again after an attempt has succeeded
C6_AtMostThreeAttempts ==
  /\ [](\A i \in DOMAIN retries : retries[i].sent <= 3)
  /\ [][\A i \in DOMAIN retries :
          retries[i].st = "resolved" => retries'[i] = retries[i]]_vars

\* C6 witness: three attempts were made and all failed
C6_Witness ==
  \E i \in DOMAIN retries : retries[i].sent = 3 /\ retries[i].st = "rejected"

\* the wait the claim states after failed attempt k
C7_Wait(k) == IF k = 1 THEN 1000 ELSE IF k = 2 THEN 2000 ELSE 4000

\* C7: the wait armed after failed attempt k is min(1000 * 2^(k-1), 5000),
\* and attempt k+1 does not start before it has elapsed
C7_BackoffWait ==
  /\ [](\A i \in DOMAIN retries :
          retries[i].st = "backoff" =>
            retries[i].wakeAt - retries[i].failedAt = C7_Wait(retries[i].attempt))
  /\ [][\A i \in DOMAIN retries :
          (retries[i].st = "backoff" /\ retries'[i].st = "attempt") =>
            /\ retries'[i].attempt = retries[i].attempt + 1
            /\ now >= retries[i].failedAt + C7_Wait(retries[i].attempt)]_vars

\* C7 witness: the third attempt is running, so both waits have been served
C7_Witness ==
  \E i \in DOMAIN retries :
    retries[i].st = "attempt" /\ retries[i].attempt = 3 /\ now >= 3000

\* C8: after an attempt has failed with status 401, 403 or 422 no further
\* attempt is made and that error is what the caller gets; when it was the
\* first attempt, the request was attempted exactly once
C8_NoRetryOnAuthOrValidation ==
  \A i \in DOMAIN retries :
    (retries[i].err # NoValue /\ retries[i].err.status \in {401, 403, 422}) =>
      /\ retries[i].st = "rejected"
      /\ retries[i].value = retries[i].err
      /\ retries[i].sent = retries[i].err.at

\* C8 witness: the first attempt failed with 422 and the request was
\* attempted once
C8_Witness ==
  \E i \in DOMAIN retries :
    /\ retries[i].st = "rejected" /\ retries[i].sent = 1
    /\ retries[i].err.status = 422

\* C9 as stated: a request that failed for any reason other than 401, 403
\* or 422 was retried until the attempt ceiling
C9_AllOthersRetried ==
  \A i \in DOMAIN retries :
    (retries[i].st = "rejected" /\ retries[i].err.status \notin {401, 403, 422})
      => retries[i].sent = 3

\* C9 as amended: a request that failed for any reason other than status
\* 401, 403 or 422 and other than an error named AbortError was retried
\* until the attempt ceiling; an AbortError is not retried
C9_OthersButAbortRetried ==
  \A i \in DOMAIN retries :
    /\ (/\ retries[i].st = "rejected"
        /\ retries[i].err.status \notin {401, 403, 422}
        /\ retries[i].err.name # "AbortError")
       => retries[i].sent = 3
    /\ (retries[i].err # NoValue /\ retries[i].err.name = "AbortError")
       => retries[i].st = "rejected" /\ retries[i].sent = retries[i].err.at

\* C9 witness: a request whose three attempts timed out was given up after
\* the third
C9_Witness ==
  \E i \in DOMAIN retries :
    /\ retries[i].st = "rejected" /\ retries[i].sent = 3
    /\ retries[i].err = AxiosError(0, "AxiosError", 3)

\* C10: when retryRequest gives up, the error the caller gets is the error
\* of the last attempt, unchanged
C10_LastErrorThrown ==
  \A i \in DOMAIN retries :
    retries[i].st = "rejected" =>
      /\ retries[i].value = retries[i].err
      /\ retries[i].value.at = retries[i].sent

\* C10 witness: three attempts failed and the caller got the third error
C10_Witness ==
  \E i \in DOMAIN retries :
    /\ retries[i].st = "rejected" /\ retries[i].sent = 3
    /\ retries[i].value = AxiosError(429, "AxiosError", 3)

\* a request of this client was answered with status 401
C11_Saw401 ==
  \E i \in DOMAIN retries :
    retries[i].err # NoValue /\ retries[i].err.status = 401

\* C11: once a backend call has returned 401, no store whose deletion works
\* holds the token any more (web: localStorage; native: SecureStore and
\* AsyncStorage), also when the deletion from another store fails, and the
\* request that got the 401 was not attempted again
C11_TokenPurgedEverywhere ==
  C11_Saw401 =>
    /\ auth.platform = Web =>
         (~auth.localStorage.broken => auth.localStorage.token = Null)
    /\ auth.platform = Native =>
         /\ ~auth.secureStore.broken => auth.secureStore.token = Null
         /\ ~auth.asyncStorage.broken => auth.asyncStorage.token = Null
    /\ \A i \in DOMAIN retries :
         (retries[i].err # NoValue /\ retries[i].err.status = 401) =>
           retries[i].st = "rejected" /\ retries[i].sent = retries[i].err.at

\* the keys a cache holds
Keys(cache) == {cache[i].key : i \in DOMAIN cache}

\* a step stores a new key into a cache that holds max entries: one entry
\* leaves, and no entry that stays was stored before it
C12_EvictsEarliest(cache, after, max) ==
  LET before == Keys(cache)
      kept == Keys(after)
      gone == {i \in DOMAIN cache : cache[i].key \notin kept} IN
  (Len(cache) = max /\ kept \ before # {}) =>
    /\ Cardinality(gone) = 1
    /\ \A i \in gone, j \in DOMAIN cache :
         cache[i].timestamp <= cache[j].timestamp

\* C12: when setCachedResponse stores a new fingerprint into a requestCache
\* of MAX_CACHE_SIZE entries, and when sendMessage stores a new key into a
\* messageCache of 50 entries, exactly one entry is evicted and it is the
\* one stored earliest among those present
C12_OldestEvicted ==
  [][/\ C12_EvictsEarliest(requestCache, requestCache', 100)
     /\ C12_EvictsEarliest(messageCache, messageCache', 50)]_vars

\* C13: between operations requestCache holds at most MAX_CACHE_SIZE (100)
\* entries and messageCache at most 50
C13_CachesBounded == Len(requestCache) <= 100 /\ Len(messageCache) <= 50

\* C13 witness: a new prompt was stored into a full requestCache, the oldest
\* entry left and the cache still holds 100 entries
C13_Witness ==
  /\ Len(requestCache) = 100
  /\ requestCache[100].key = TextRequestKey(<<"r">>)
  /\ requestCache[1].key # TextRequestKey(FillerPrompt(1))

\* C14: when _performMealAnalysis fails, every caller of analyzeMealImage
\* attached to its registration is rejected with the error it failed with,
\* and the step in which it fails leaves requestCache unchanged
C14_FailureRejectsAllAndCachesNothing ==
  /\ [](\A c \in AnalyzeCalls :
          (/\ serverCalls[c].perform # 0
           /\ performs[serverCalls[c].perform].st = "rejected")
          => /\ serverCalls[c].st = "rejected"
             /\ serverCalls[c].result = performs[serverCalls[c].perform].value
             /\ serverCalls[c].result.kind = "error")
  /\ [][\A i \in DOMAIN performs :
          (performs[i].st = "pending" /\ performs'[i].st = "rejected")
            => requestCache' = requestCache]_vars

\* C14 witness: the caller that started a computation and a caller collapsed
\* onto it were both rejected, and nothing is cached
C14_Witness ==
  /\ Len(serverCalls) = 2 /\ Len(performs) = 1
  /\ serverCalls[1].role = "starter" /\ serverCalls[2].role = "collapsed"
  /\ serverCalls[1].st = "rejected" /\ serverCalls[2].st = "rejected"
  /\ serverCalls[1].result = serverCalls[2].result
  /\ requestCache = <<>>

\* C15: no entry of requestCache holds a locally synthesized Fallback
\* result: analyzeMealImage and updateMealAnalysis store only what a
\* successful model response gave
C15_FallbackNeverCached ==
  \A i \in DOMAIN requestCache : requestCache[i].data.kind # "fallback"

\* the calls of parseAnalysisResponse that have returned, with content that
\* was parsed (TRUE) or could not be parsed (FALSE)
Parses(parsed) ==
  {i \in DOMAIN performs :
     /\ performs[i].op = "parse" /\ performs[i].st = "fulfilled"
     /\ (performs[i].input.content.json # NoJson) = parsed}
NutrientFields ==
  {"calories", "protein", "carbs", "fat", "fiber", "sugar", "sodium"}

\* C16: for every parsed object, the seven nutrient fields of the output
\* are numbers, the coerced value of a numeric field and 0 for an absent or
\* non-numeric one, and the confidence is in [1,100]; calories "450" with
\* confidence 150 gives calories 450 and confidence 100
C16_NumericFieldsDefined ==
  \A i \in Parses(TRUE) :
    LET raw == performs[i].input.content.json
        out == performs[i].value IN
    /\ \A f \in NutrientFields :
         /\ out[f] \in Int
         /\ raw[f].t \in {"absent", "nan", "null"} => out[f] = 0
         /\ raw[f].t \in {"num", "str"} => out[f] = raw[f].v
    /\ out.confidence \in 1..100
    /\ (raw.calories = Str(450) /\ raw.confidence = Num(150))
         => out.calories = 450 /\ out.confidence = 100

\* C16 witness: the example, with other fields absent
C16_Witness ==
  \E i \in Parses(TRUE) :
    /\ performs[i].input.content.json = Parsed("meal", Str(450), Num(150), Absent)
    /\ performs[i].value.calories = 450 /\ performs[i].value.confidence = 100
    /\ performs[i].value.protein = 0

\* C17: the output confidence is 75 when the raw confidence is absent or
\* non-numeric, and min(100, max(1, c)) for every numeric raw confidence c,
\* 0 and negative values included
C17_ConfidenceClamped ==
  \A i \in Parses(TRUE) :
    LET c == performs[i].input.content.json.confidence
        out == performs[i].value.confidence IN
    /\ c.t \in {"absent", "nan"} => out = 75
    /\ c.t \in {"num", "str"} =>
         out = (IF c.v > 100 THEN 100 ELSE IF c.v < 1 THEN 1 ELSE c.v)

\* C18: content that cannot be parsed gives a Fallback result with
\* confidence 65 and calories in 300..700, for every random draw
C18_FallbackOnUnparsable ==
  \A i \in Parses(FALSE) :
    /\ performs[i].value.kind = "fallback"
    /\ performs[i].value.confidence = 65
    /\ performs[i].value.calories \in 300..700

\* C18 witness: the largest draw of the random source
C18_Witness ==
  \E i \in Parses(FALSE) :
    /\ performs[i].input.rnd = RandomScale - 1
    /\ performs[i].value.kind = "fallback"
    /\ performs[i].value.calories = 699

\* computation i (retry sequence i) is what a key of the request queue
\* points at
ServerRegistered(i) == \E k \in DOMAIN requestQueue : requestQueue[k] = i
ClientRegistered(i) == \E k \in DOMAIN nutritionQueue : nutritionQueue[k] = i

\* C19: every registration made by analyzeMealImage or by analyzeMeal is
\* eventually gone from the request queue with its underlying call settled,
\* whether the call succeeded or failed, provided calls are answered and
\* timers fire
C19_RegistrationEventuallyRemoved ==
  /\ \A i \in 1..MaxServerCalls :
       ServerRegistered(i) ~>
         (/\ ~ServerRegistered(i) /\ i \in DOMAIN performs
          /\ performs[i].st \in {"fulfilled", "rejected"})
  /\ \A i \in 1..MaxAnalyzeCalls :
       ClientRegistered(i) ~>
         (~ClientRegistered(i) /\ i \in DOMAIN retries /\ Settled(retries[i]))

\* C19 witness: a computation failed, its clean-up timer has fired and the
\* registration is gone
C19_Witness ==
  /\ Len(performs) = 1 /\ performs[1].st = "rejected"
  /\ requestQueue = EmptyMap /\ serverTimers = {} /\ requestCache = <<>>
  /\ now >= 1000

\* C20: requests that differ in language never share a fingerprint: a call
\* of analyzeMealImage (server) or analyzeMeal (client) that was collapsed
\* onto an in-flight call, or served from the cache, has the language of
\* every call that started a computation under its key
C20_ServerSharesOnlySameLanguage ==
  \A c, d \in DOMAIN serverCalls :
     /\ c \in AnalyzeCalls /\ d \in AnalyzeCalls
     /\ serverCalls[c].role \in {"collapsed", "cached"}
     /\ serverCalls[d].role = "starter"
     /\ serverCalls[d].key = serverCalls[c].key
     => serverCalls[d].input.language = serverCalls[c].input.language
C20_ClientSharesOnlySameLanguage ==
  \A c, d \in DOMAIN nutritionCalls :
     /\ nutritionCalls[c].role = "collapsed" /\ nutritionCalls[d].role = "starter"
     /\ nutritionCalls[d].key = nutritionCalls[c].key
     => nutritionCalls[d].language = nutritionCalls[c].language
C20_LanguageInFingerprint ==
  C20_ServerSharesOnlySameLanguage /\ C20_ClientSharesOnlySameLanguage

\* the underlying calls of analyzeMealImage that have not settled; without
\* a model client the promise is settled when it is created
Unsettled ==
  {i \in DOMAIN performs :
     performs[i].op = "analyze" /\ performs[i].st = "pending" /\ openai}

\* C21: in every reachable state of the server, under any interleaving of
\* analyzeMealImage calls, settlements, clean-up timers and clearCaches, at
\* most one underlying _performMealAnalysis call per fingerprint is unsettled
C21_OneUnsettledPerFingerprint ==
  \A i, j \in Unsettled : performs[i].key = performs[j].key => i = j

\* a clean-up timer fires: what it leaves of the registration under its key
\* when that registration belongs to a later call whose underlying call is
\* still unsettled
C22_ServerStep ==
  \A t \in serverTimers \ serverTimers' :
     (/\ MapHas(requestQueue, t.key) /\ requestQueue[t.key] # t.reg
      /\ requestQueue[t.key] \in Unsettled)
     => (MapHas(requestQueue', t.key) /\ requestQueue'[t.key] = requestQueue[t.key])
C22_ClientStep ==
  \A t \in nutritionTimers \ nutritionTimers' :
     (/\ MapHas(nutritionQueue, t.key) /\ nutritionQueue[t.key] # t.reg
      /\ ~Settled(retries[nutritionQueue[t.key]]))
     => (MapHas(nutritionQueue', t.key)
         /\ nutritionQueue'[t.key] = nutritionQueue[t.key])

\* C22: the delayed clean-up scheduled when a call settles removes only that
\* call's own registration: it never deletes a registration that a later
\* call created for the same fingerprint and whose underlying call is still
\* unsettled
C22_CleanupRemovesOwnRegistration ==
  [][C22_ServerStep /\ C22_ClientStep]_vars

\* a call arrives while the registration under its key is of a computation
\* that has settled
C23_ServerStep ==
  (Len(serverCalls') = Len(serverCalls) + 1 /\ Added(serverCalls).op = "analyze") =>
    LET k == Added(serverCalls).key IN
    (MapHas(requestQueue, k) /\ performs[requestQueue[k]].st # "pending") =>
      /\ performs' = performs
      /\ Added(serverCalls).st = performs[requestQueue[k]].st
      /\ Added(serverCalls).result = performs[requestQueue[k]].value
C23_ClientStep ==
  (Len(nutritionCalls') = Len(nutritionCalls) + 1) =>
    LET k == Added(nutritionCalls).key IN
    (MapHas(nutritionQueue, k) /\ Settled(retries[nutritionQueue[k]])) =>
      /\ retries' = retries
      /\ Added(nutritionCalls).st = retries[nutritionQueue[k]].st
      /\ Added(nutritionCalls).result = retries[nutritionQueue[k]].value

\* C23: a call with fingerprint F that arrives after the registered call
\* for F has settled and before its clean-up has run starts no underlying
\* call and receives the settled outcome of the registered call, the same
\* error if it failed
C23_GraceWindowServesSettledOutcome ==
  [][C23_ServerStep /\ C23_ClientStep]_vars

\* a call reads its cache and finds an entry whose age is at least the TTL
C24_ServerStep ==
  (Len(serverCalls') = Len(serverCalls) + 1
     /\ Added(serverCalls).age >= CACHE_DURATION) =>
    /\ CacheIndex(requestCache', Added(serverCalls).key) = 0
    /\ Len(requestCache') = Len(requestCache) - 1
C24_ClientStep ==
  (Len(chatCalls') = Len(chatCalls) + 1
     /\ Added(chatCalls).age >= ChatCacheDuration) =>
    /\ CacheIndex(messageCache', Added(chatCalls).key) = 0
    /\ Len(messageCache') = Len(messageCache) - 1

\* C24: a cache read that finds an entry whose age is at least the TTL
\* removes that entry: after the read it occupies no slot and does not count
\* toward the capacity
C24_ExpiredEntryRemovedByRead ==
  [][C24_ServerStep /\ C24_ClientStep]_vars

\* C25: setCachedResponse removes an entry of another fingerprint only when
\* the fingerprint being stored is not yet in the cache and the cache is at
\* MAX_CACHE_SIZE; re-storing a fingerprint that is present leaves every
\* other entry in place
C25_EvictsOnlyForNewKey ==
  [][ (Keys(requestCache) \ Keys(requestCache') # {}) =>
        /\ Len(requestCache) >= MAX_CACHE_SIZE
        /\ Keys(requestCache') \ Keys(requestCache) # {} ]_vars

\* C26: after a backend call has returned 401, AuthAPI.getStoredToken does
\* not return the purged token: until the next signIn that succeeds, a call
\* made after the 401 returns null, also when the token was put into the
\* in-memory cache less than 5 minutes before the 401
C26_NoTokenAfter401 ==
  \A c \in DOMAIN auth.api.calls :
     (auth.api.calls[c].st = "returned" /\ auth.api.calls[c].after401)
     => auth.api.calls[c].result = Null

\* C27: once AuthAPI.signOut has completed, whether or not the signout
\* request succeeded, the in-memory token cache is empty and stays empty
\* until the next signIn, in every interleaving with getStoredToken calls
\* (checked on the behaviours in which no signIn has succeeded)
C27_NoSignIn ==
  \A i \in DOMAIN retries :
     retries[i].by = "signIn" => retries[i].st # "resolved"
C27_CacheEmptyAfterSignOut ==
  (auth.api.signOut = "done" /\ C27_NoSignIn) => auth.api.tokenCache = Null

\* C28: the result that updateMealAnalysis(originalAnalysis, updateText,
\* language) returns from the model was computed from the originalAnalysis
\* of that call: no call is answered with a result that an earlier call
\* computed for another originalAnalysis
C28_UpdateComputedFromOwnOriginal ==
  \A c \in DOMAIN serverCalls :
     (/\ serverCalls[c].op = "update" /\ serverCalls[c].st = "fulfilled"
      /\ serverCalls[c].role # "local")
     => \E i \in DOMAIN performs :
          /\ performs[i].op = "update" /\ performs[i].st = "fulfilled"
          /\ performs[i].value = serverCalls[c].result
          /\ performs[i].input.original = serverCalls[c].input.original

\* C29: however many analyzeMeal calls with one request key arrive while the
\* first call's retry sequence is unsettled, at most retryAttempts (3) HTTP
\* requests are sent: every such call is attached to that one sequence,
\* which sends at most three
C29_AtMostThreeRequests ==
  \A c \in DOMAIN nutritionCalls :
     nutritionCalls[c].role = "starter" =>
       /\ retries[nutritionCalls[c].retry].sent <= retryAttempts
       /\ ~Settled(retries[nutritionCalls[c].retry]) =>
            \A d \in DOMAIN nutritionCalls :
               (d > c /\ nutritionCalls[d].key = nutritionCalls[c].key)
               => nutritionCalls[d].retry = nutritionCalls[c].retry
C29_Witness ==
  \E c, d \in DOMAIN nutritionCalls :
     /\ nutritionCalls[c].role = "starter" /\ nutritionCalls[d].role = "collapsed"
     /\ nutritionCalls[d].retry = nutritionCalls[c].retry
     /\ nutritionCalls[d].st = "pending"
     /\ retries[nutritionCalls[c].retry].st = "attempt"
     /\ retries[nutritionCalls[c].retry].sent = retryAttempts
     /\ Len(retries) = 1
====
